---------------------------- MODULE Spec2Model ----------------------------
(***************************************************************************)
(* Two independent programs of the repository:                             *)
(*   - scripts/test_lm_endpoints.py : the sequential HTTP test runner      *)
(*     (TestRunner, run_all, main), specification Spec;                    *)
(*   - ace_endpoint.py : the ingress launcher, specification LauncherSpec. *)
(* The server under test and the tunnelling provider are the environment:  *)
(* every answer they can give is an input drawn from a small set.          *)
(***************************************************************************)
EXTENDS Integers, Sequences, FiniteSets, TLC

VARIABLES
    pc,            \* position of main / run_all
    audio_file,    \* args.audio_file: None or a string
    passed, failed, skipped,   \* TestRunner counters
    results,       \* TestRunner.results: the ordered log of records
    sent,          \* HTTP requests issued so far, in order
    printed,       \* lines written to stdout by run_all, _record and _pp
    last,          \* history: the responses the last executed test received
    ret,           \* run_all's return value once it has returned
    exit_code,     \* the argument of sys.exit once main has exited
    lpc,           \* launcher: position in the module body of ace_endpoint.py
    env,           \* launcher: the environment after load_dotenv
    traffic_policy,\* launcher: the traffic_policy variable
    forwards,      \* launcher: calls of ngrok.forward made so far
    listener,      \* launcher: "none", "open" or "closed" (released by the program)
    lprinted,      \* launcher: lines written to stdout
    sleeps         \* launcher: completed time.sleep(1) calls

runnerVars == <<pc, audio_file, passed, failed, skipped, results, sent,
                printed, last, ret, exit_code>>
launcherVars == <<lpc, env, traffic_policy, forwards, listener, lprinted, sleeps>>
vars == <<pc, audio_file, passed, failed, skipped, results, sent,
          printed, last, ret, exit_code,
          lpc, env, traffic_policy, forwards, listener, lprinted, sleeps>>

(***************************************************************************)
(* Python values.  None is the empty sequence, a present value v is <<v>>, *)
(* so that None differs from every string, the empty string included.      *)
(***************************************************************************)
None == <<>>
Some(v) == <<v>>
\* Python truthiness of an Optional[str]: None and "" are falsy.
Truthy(x) == x # None /\ x[1] # ""

(***************************************************************************)
(* JSON values as resp.json() returns them.                                *)
(***************************************************************************)
JNull == [t |-> "null"]
JList == [t |-> "list"]
JObj(f) == [t |-> "obj", v |-> f]
IsObj(j) == j.t = "obj"
\* key in dict
Has(j, k) == k \in DOMAIN j.v
\* dict.get(k) is not None
NotNone(j, k) == Has(j, k) /\ j.v[k] # JNull

(***************************************************************************)
(* The answers of the server: the inputs of every test.                    *)
(***************************************************************************)
HttpOK == 200
HttpBadRequest == 400

JStr(s) == [t |-> "str", s |-> s]
JNum(n) == [t |-> "num", n |-> n]

FullData == [caption |-> JStr("A"), lyrics |-> JStr("L"),
             bpm |-> JNum(120), duration |-> JNum(30)]

Http(status, body) == [kind |-> "http", status |-> status, parses |-> TRUE, json |-> body]
OkBody(d) == JObj([code |-> JNum(HttpOK), data |-> d])
ErrorBody == JObj([code |-> JNum(HttpBadRequest), error |-> JStr("e")])

\* Answers every test tells apart: the exception requests raised instead of
\* a response, a body that is no JSON, a JSON array, the success shape, a
\* success code without data, the error shape.
CoreResponses ==
    {[kind |-> "raise", exc |-> "ConnectionError"],
     [kind |-> "raise", exc |-> "Timeout"],
     [kind |-> "http", status |-> HttpOK, parses |-> FALSE, json |-> JNull],
     Http(HttpOK, JList),
     Http(HttpOK, OkBody(JObj(FullData))),
     Http(HttpOK, JObj([code |-> JNum(HttpOK)])),
     Http(HttpOK, ErrorBody)}

\* Answers whose HTTP status is not 200, and bodies with a code that is
\* neither 200 nor 400 or with no code at all.
StatusResponses ==
    {Http(500, OkBody(JObj(FullData))), Http(HttpBadRequest, ErrorBody),
     Http(HttpOK, JObj([code |-> JNum(500), error |-> JStr("e")])),
     Http(HttpOK, JObj([error |-> JStr("e")]))}

\* Success answers by the field of data that is missing, null, empty or
\* another text.
DataResponse ==
    [no_data_object |-> Http(HttpOK, OkBody(JNull)),
     no_caption |-> Http(HttpOK, OkBody(JObj(
                        [lyrics |-> JStr("L"), bpm |-> JNum(120), duration |-> JNum(30)]))),
     empty_caption |-> Http(HttpOK, OkBody(JObj([FullData EXCEPT !.caption = JStr("")]))),
     other_caption |-> Http(HttpOK, OkBody(JObj([FullData EXCEPT !.caption = JStr("B")]))),
     null_lyrics |-> Http(HttpOK, OkBody(JObj([FullData EXCEPT !.lyrics = JNull]))),
     other_lyrics |-> Http(HttpOK, OkBody(JObj([FullData EXCEPT !.lyrics = JStr("M")]))),
     no_bpm |-> Http(HttpOK, OkBody(JObj(
                        [caption |-> JStr("A"), lyrics |-> JStr("L"), duration |-> JNum(30)]))),
     no_duration |-> Http(HttpOK, OkBody(JObj(
                        [caption |-> JStr("A"), lyrics |-> JStr("L"), bpm |-> JNum(120)])))]

\* The answers drawn for a test: the core ones, those with another HTTP
\* status or code for the tests that decide on them alone, and those that
\* differ in a field of data the test reads.
Answers(readsStatus, fields) ==
    CoreResponses \cup (IF readsStatus THEN StatusResponses ELSE {})
                  \cup {DataResponse[f] : f \in fields}

(***************************************************************************)
(* Exceptions.  ExcParent is the base class of each exception class the    *)
(* modelled operations raise; the except clauses match by isinstance.      *)
(***************************************************************************)
ExcParent ==
    [ConnectionError |-> "RequestException", Timeout |-> "RequestException",
     JSONDecodeError |-> "RequestException", RequestException |-> "OSError",
     FileNotFoundError |-> "OSError", PermissionError |-> "OSError",
     OSError |-> "Exception", KeyError |-> "LookupError",
     LookupError |-> "Exception", AttributeError |-> "Exception",
     AssertionError |-> "Exception", Exception |-> "BaseException"]

RECURSIVE IsInstance(_, _)
IsInstance(e, cls) ==
    IF e = cls THEN TRUE
    ELSE IF e \in DOMAIN ExcParent THEN IsInstance(ExcParent[e], cls)
    ELSE FALSE

(***************************************************************************)
(* What a test body does, as a sequence of events: a request issued, a     *)
(* _pp call, a _record call; the body either completes or raises.          *)
(***************************************************************************)
SendEv(method, path, payload, timeout) ==
    [ev |-> "send", method |-> method, path |-> path, payload |-> payload,
     timeout |-> timeout]
PpEv(label) == [ev |-> "pp", label |-> label]
\* A detail string is kept as "" when empty and as "..." otherwise: _record
\* reads only `if detail`.
Text(detail) == IF detail = "" THEN "" ELSE "..."
RecEv(status, detail) ==
    [ev |-> "record", status |-> status, detail |-> Text(detail)]
Done(events) == [t |-> "done", events |-> events]
Raise(exc, events) == [t |-> "raise", exc |-> exc, events |-> events]

\* dict.get("code"), None when the key is missing
CodeOf(j) == IF Has(j, "code") THEN j.v.code ELSE JNull
\* bool(dict.get(k)): missing, null and "" are falsy
TruthyField(j, k) == NotNone(j, k) /\ j.v[k] # JStr("")
\* dict.get(k, "")
GetOrEmpty(j, k) == IF Has(j, k) THEN j.v[k] ELSE JStr("")

\* The explicit timeouts of the requests, in seconds.
HealthTimeout == 10
QuickTimeout == 30
GenerationTimeout == 120
AudioTimeout == 300

(***************************************************************************)
(* The try blocks of the test methods.  Each takes the server's answer and *)
(* gives the events of the block and whether it completed or raised.       *)
(***************************************************************************)
\* The asserts of a try block on d = data["data"]: <<key, "truthy">> is
\* `assert d.get(key)`, <<key, "notnone">> is `assert d.get(key) is not None`.
AssertHolds(d, a) ==
    IF a[2] = "truthy" THEN TruthyField(d, a[1]) ELSE NotNone(d, a[1])

\* requests.post(...); data = resp.json(); the success check on code (and on
\* the HTTP status where the test reads it); the asserts; _pp; _record PASS.
SuccessTry(r, send, name, checkStatus, asserts) ==
    IF r.kind = "raise" THEN Raise(r.exc, <<send>>)
    ELSE IF ~r.parses THEN Raise("JSONDecodeError", <<send>>)
    ELSE IF checkStatus /\ r.status # HttpOK
        THEN Done(<<send, RecEv("FAIL", "status=..., body=...")>>)
    ELSE IF ~IsObj(r.json) THEN Raise("AttributeError", <<send>>)
    ELSE IF CodeOf(r.json) # JNum(HttpOK)
        THEN Done(<<send, RecEv("FAIL", IF checkStatus THEN "status=..., body=..."
                                                        ELSE "code=..., error=...")>>)
    ELSE IF ~Has(r.json, "data") THEN Raise("KeyError", <<send>>)
    ELSE LET d == r.json.v.data IN
        IF asserts # <<>> /\ ~IsObj(d) THEN Raise("AttributeError", <<send>>)
        ELSE IF \E i \in 1..Len(asserts) : ~AssertHolds(d, asserts[i])
            THEN Raise("AssertionError", <<send>>)
        ELSE Done(<<send, PpEv(name), RecEv("PASS", "")>>)

\* Expect400Try with the test on the code turned into "anything but 200".
Expect400TryMut(r, send) ==
    IF r.kind = "raise" THEN Raise(r.exc, <<send>>)
    ELSE IF ~r.parses THEN Raise("JSONDecodeError", <<send>>)
    ELSE IF ~IsObj(r.json) THEN Raise("AttributeError", <<send>>)
    ELSE IF CodeOf(r.json) # JNum(HttpOK)
        THEN Done(<<send, RecEv("PASS", "error=...")>>)
    ELSE Done(<<send, RecEv("FAIL", "expected code=400, got code=...")>>)

\* requests.post(..., json={}); PASS when the body's code is 400.
Expect400Try(r, send) ==
    IF r.kind = "raise" THEN Raise(r.exc, <<send>>)
    ELSE IF ~r.parses THEN Raise("JSONDecodeError", <<send>>)
    ELSE IF ~IsObj(r.json) THEN Raise("AttributeError", <<send>>)
    ELSE IF CodeOf(r.json) = JNum(HttpBadRequest)
        THEN Done(<<send, RecEv("PASS", "error=...")>>)
    ELSE Done(<<send, RecEv("FAIL", "expected code=400, got code=...")>>)

\* test_health's try block: `resp.status_code == 200 and data.get("code") == 200`
\* reads data only when the status is 200.
HealthTry(r, send) ==
    IF r.kind = "raise" THEN Raise(r.exc, <<send>>)
    ELSE IF ~r.parses THEN Raise("JSONDecodeError", <<send>>)
    ELSE IF r.status # HttpOK
        THEN Done(<<send, RecEv("FAIL", "unexpected response: ...")>>)
    ELSE IF ~IsObj(r.json) THEN Raise("AttributeError", <<send>>)
    ELSE IF CodeOf(r.json) = JNum(HttpOK) THEN Done(<<send, RecEv("PASS", "")>>)
    ELSE Done(<<send, RecEv("FAIL", "unexpected response: ...")>>)

\* SeedOutputsMatch comparing the captions only.
SeedOutputsMatchMut(caption1, caption2, lyrics1, lyrics2) == caption1 = caption2

\* `if caption1 == caption2 and lyrics1 == lyrics2`
SeedOutputsMatch(caption1, caption2, lyrics1, lyrics2) ==
    caption1 = caption2 /\ lyrics1 = lyrics2

\* test_inspire_seed_reproducibility's try block: both posts, then both
\* json() calls, then the code check (d2 read only when d1's code is 200),
\* then the comparison of caption and lyrics, each "" when missing.
SeedTry(r1, r2, send, name) ==
    IF r1.kind = "raise" THEN Raise(r1.exc, <<send>>)
    ELSE IF r2.kind = "raise" THEN Raise(r2.exc, <<send, send>>)
    ELSE IF ~r1.parses \/ ~r2.parses THEN Raise("JSONDecodeError", <<send, send>>)
    ELSE IF ~IsObj(r1.json) THEN Raise("AttributeError", <<send, send>>)
    ELSE IF CodeOf(r1.json) # JNum(HttpOK)
        THEN Done(<<send, send, RecEv("FAIL", "one or both calls failed: ...")>>)
    ELSE IF ~IsObj(r2.json) THEN Raise("AttributeError", <<send, send>>)
    ELSE IF CodeOf(r2.json) # JNum(HttpOK)
        THEN Done(<<send, send, RecEv("FAIL", "one or both calls failed: ...")>>)
    ELSE IF ~Has(r1.json, "data") THEN Raise("KeyError", <<send, send>>)
    ELSE IF ~IsObj(r1.json.v.data) THEN Raise("AttributeError", <<send, send>>)
    ELSE IF ~Has(r2.json, "data") THEN Raise("KeyError", <<send, send>>)
    ELSE IF ~IsObj(r2.json.v.data) THEN Raise("AttributeError", <<send, send>>)
    ELSE LET caption1 == GetOrEmpty(r1.json.v.data, "caption")
             caption2 == GetOrEmpty(r2.json.v.data, "caption")
             lyrics1 == GetOrEmpty(r1.json.v.data, "lyrics")
             lyrics2 == GetOrEmpty(r2.json.v.data, "lyrics")
         IN IF SeedOutputsMatch(caption1, caption2, lyrics1, lyrics2)
            THEN Done(<<send, send, RecEv("PASS", "captions and lyrics match")>>)
            ELSE Done(<<send, send, RecEv("FAIL", "outputs differ ..."),
                        PpEv("call 1"), PpEv("call 2")>>)

\* The except clauses of a try block, in order: <<class, detail>>.  The first
\* clause the raised exception is an instance of records FAIL; an exception
\* no clause matches leaves the method.
Except(out, handlers) ==
    IF out.t = "done" THEN out
    ELSE LET hit == {i \in 1..Len(handlers) : IsInstance(out.exc, handlers[i][1])} IN
        IF hit = {} THEN out
        ELSE LET i == CHOOSE k \in hit : \A m \in hit : k <= m IN
            Done(out.events \o <<RecEv("FAIL", handlers[i][2])>>)

\* ExceptException narrowed to the exceptions of the requests library.
ExceptExceptionMut == <<<<"RequestException", "str(e)">>>>
ExceptException == <<<<"Exception", "str(e)">>>>

(***************************************************************************)
(* The test methods: name, request, try block and except clauses.          *)
(***************************************************************************)
Post(path, payload, timeout) == SendEv("POST", path, payload, timeout)

test_health(r) ==
    Except(HealthTry(r, SendEv("GET", "/health", "", HealthTimeout)),
           <<<<"ConnectionError", "cannot connect to ...">>>> \o ExceptException)

test_inspire_basic(r) ==
    Except(SuccessTry(r, Post("/lm/inspire", "query", GenerationTimeout),
                      "inspire: basic query", TRUE,
                      <<<<"caption", "truthy">>, <<"lyrics", "notnone">>,
                        <<"bpm", "notnone">>, <<"duration", "notnone">>>>),
           ExceptException)

test_inspire_instrumental(r) ==
    Except(SuccessTry(r, Post("/lm/inspire", "query,instrumental,temperature",
                              GenerationTimeout),
                      "inspire: instrumental", FALSE, <<<<"caption", "truthy">>>>),
           ExceptException)

test_inspire_with_language(r) ==
    Except(SuccessTry(r, Post("/lm/inspire", "query,vocal_language", GenerationTimeout),
                      "inspire: vocal_language=ja", FALSE, <<>>),
           ExceptException)

test_inspire_missing_query(r) ==
    Except(Expect400Try(r, Post("/lm/inspire", "{}", QuickTimeout)), ExceptException)

test_inspire_seed_reproducibility(r1, r2) ==
    Except(SeedTry(r1, r2, Post("/lm/inspire", "query,seed=12345,temperature",
                                GenerationTimeout),
                   "inspire: seed reproducibility"),
           ExceptException)

test_format_basic(r) ==
    Except(SuccessTry(r, Post("/lm/format", "prompt,lyrics", GenerationTimeout),
                      "format: basic", FALSE,
                      <<<<"caption", "truthy">>, <<"bpm", "notnone">>>>),
           ExceptException)

test_format_with_constraints(r) ==
    Except(SuccessTry(r, Post("/lm/format",
                              "prompt,lyrics,bpm,key_scale,time_signature,duration,language",
                              GenerationTimeout),
                      "format: with constraints", FALSE, <<>>),
           ExceptException)

test_format_caption_only(r) ==
    Except(SuccessTry(r, Post("/lm/format", "caption", GenerationTimeout),
                      "format: caption only", FALSE, <<>>),
           ExceptException)

test_format_missing_both(r) ==
    Except(Expect400Try(r, Post("/lm/format", "{}", QuickTimeout)), ExceptException)

test_understand_no_input(r) ==
    Except(Expect400Try(r, Post("/lm/understand", "{}", QuickTimeout)), ExceptException)

\* What open(audio_file, "rb") does: it opens the file or raises.
OpenOutcomes == {"opened", "FileNotFoundError", "PermissionError"}

\* SkipWithoutAudio as `if audio_file is None`.
SkipWithoutAudioMut(audio) == audio = None

\* `if not audio_file`: None and "" both skip.
SkipWithoutAudio(audio) == ~Truthy(audio)

test_understand_file_upload(audio, opened, r) ==
    IF SkipWithoutAudio(audio) THEN Done(<<RecEv("SKIP", "no --audio-file provided")>>)
    ELSE Except(IF opened # "opened" THEN Raise(opened, <<>>)
                ELSE SuccessTry(r, Post("/lm/understand", "multipart:audio,temperature",
                                        AudioTimeout),
                                "understand: file upload", FALSE,
                                <<<<"caption", "truthy">>>>),
                <<<<"FileNotFoundError", "audio file not found: ...">>>>
                    \o ExceptException)

test_understand_audio_path(audio, r) ==
    IF SkipWithoutAudio(audio) THEN Done(<<RecEv("SKIP", "no --audio-file provided")>>)
    ELSE Except(SuccessTry(r, Post("/lm/understand", "audio_path,temperature",
                                   AudioTimeout),
                           "understand: audio_path", FALSE, <<>>),
                ExceptException)

\* The name each test method records under.
TestName ==
    [test_health |-> "health: server reachable",
     test_inspire_basic |-> "inspire: basic query",
     test_inspire_instrumental |-> "inspire: instrumental",
     test_inspire_with_language |-> "inspire: vocal_language=ja",
     test_inspire_missing_query |-> "inspire: missing query (expect 400)",
     test_inspire_seed_reproducibility |-> "inspire: seed reproducibility",
     test_format_basic |-> "format: basic",
     test_format_with_constraints |-> "format: with constraints",
     test_format_caption_only |-> "format: caption only",
     test_format_missing_both |-> "format: missing both (expect 400)",
     test_understand_no_input |-> "understand: no input (expect 400)",
     test_understand_file_upload |-> "understand: file upload",
     test_understand_audio_path |-> "understand: audio_path"]

(***************************************************************************)
(* TestRunner state and _record.                                           *)
(***************************************************************************)
\* TestRunner.__init__
NewRunner == [passed |-> 0, failed |-> 0, skipped |-> 0, results |-> <<>>,
              sent |-> <<>>, printed |-> <<>>]

\* _record with the SKIP branch leaving the skipped counter alone.
_recordMut(st, name, status, detail) ==
    [st EXCEPT
        !.results = Append(@, [name |-> name, status |-> status, detail |-> detail]),
        !.passed = IF status = "PASS" THEN @ + 1 ELSE @,
        !.failed = IF status = "FAIL" THEN @ + 1 ELSE @,
        !.printed = Append(@, [line |-> "record", icon |-> status, name |-> name,
                               detail |-> detail])]

\* TestRunner._record: append the record, bump one counter (every status
\* other than PASS and FAIL counts as skipped), print the line.
_record(st, name, status, detail) ==
    [st EXCEPT
        !.results = Append(@, [name |-> name, status |-> status, detail |-> detail]),
        !.passed = IF status = "PASS" THEN @ + 1 ELSE @,
        !.failed = IF status = "FAIL" THEN @ + 1 ELSE @,
        !.skipped = IF status \notin {"PASS", "FAIL"} THEN @ + 1 ELSE @,
        !.printed = Append(@, [line |-> "record", icon |-> status, name |-> name,
                               detail |-> detail])]

\* The events of a test method applied to the runner, in order.
RECURSIVE Apply(_, _, _)
Apply(st, name, events) ==
    IF events = <<>> THEN st
    ELSE LET e == Head(events)
             st1 == IF e.ev = "record" THEN _record(st, name, e.status, e.detail)
                    ELSE IF e.ev = "send" THEN [st EXCEPT !.sent = Append(@, e)]
                    ELSE [st EXCEPT !.printed = Append(@, [line |-> "pp", label |-> e.label])]
         IN Apply(st1, name, Tail(events))

(***************************************************************************)
(* The ingress launcher, ace_endpoint.py.                                  *)
(***************************************************************************)
\* The port ngrok.forward is given.
LocalPort == 8001

\* How many time.sleep(1) calls of the endless loop are followed.
MaxSleeps == 3

\* str(x) as an f-string formats it
Str(x) == IF x = None THEN "None" ELSE x[1]

\* HasCredentials with `or` for `and`.
HasCredentialsMut(username, password) == Truthy(username) \/ Truthy(password)

\* `if auth_username and auth_password`
HasCredentials(username, password) == Truthy(username) /\ Truthy(password)

\* json.dumps of the policy dict built around the credential string.
DumpsPolicy(credential) ==
    "{\"on_http_request\": [{\"actions\": [{\"type\": \"basic-auth\", "
    \o "\"config\": {\"credentials\": [\"" \o credential \o "\"]}}]}]}"

\* The traffic_policy the module ends up with for the two credentials.
BuildTrafficPolicy(username, password) ==
    IF HasCredentials(username, password)
    THEN Some(DumpsPolicy(Str(username) \o ":" \o Str(password)))
    ELSE None

\* What os.getenv can return for a variable: unset, empty, a value.
EnvValues(v) == {None, Some(""), Some(v)}

Envs ==
    [AUTH_USERNAME : EnvValues("alice"), AUTH_PASSWORD : EnvValues("s3cret"),
     NGROK_AUTHTOKEN : {None, Some("tok")}]

UnprotectedWarning ==
    "WARNING: No AUTH_USERNAME or AUTH_PASSWORD found in .ngrok_env. API will be unprotected!"

LauncherIdle ==
    /\ lpc = "off"
    /\ env = [AUTH_USERNAME |-> None, AUTH_PASSWORD |-> None, NGROK_AUTHTOKEN |-> None]
    /\ traffic_policy = None
    /\ forwards = <<>>
    /\ listener = "none"
    /\ lprinted = <<>>
    /\ sleeps = 0

RunnerIdle ==
    /\ pc = "off"
    /\ audio_file = None
    /\ passed = 0
    /\ failed = 0
    /\ skipped = 0
    /\ results = <<>>
    /\ sent = <<>>
    /\ printed = <<>>
    /\ last = [test |-> "", resps |-> <<>>]
    /\ ret = None
    /\ exit_code = None

\* The module starts with the environment load_dotenv left.
LauncherInit ==
    /\ lpc = "start"
    /\ env \in Envs
    /\ traffic_policy = None
    /\ forwards = <<>>
    /\ listener = "none"
    /\ lprinted = <<>>
    /\ sleeps = 0
    /\ RunnerIdle

\* Lines 10-35: read the credentials, build the policy, print which case.
BuildPolicy ==
    /\ lpc = "start"
    /\ traffic_policy' = BuildTrafficPolicy(env.AUTH_USERNAME, env.AUTH_PASSWORD)
    /\ lprinted' = Append(lprinted,
                     IF HasCredentials(env.AUTH_USERNAME, env.AUTH_PASSWORD)
                     THEN "Basic auth enabled for user: " \o Str(env.AUTH_USERNAME)
                     ELSE UnprotectedWarning)
    /\ lpc' = "forward"
    /\ UNCHANGED <<env, forwards, listener, sleeps, runnerVars>>

\* ngrok.forward(8001, ...): it returns a listener, or it raises and the
\* exception, which nothing catches, ends the process.
Forward ==
    /\ lpc = "forward"
    /\ forwards' = Append(forwards, [port |-> LocalPort,
                                     authtoken |-> env.NGROK_AUTHTOKEN,
                                     traffic_policy |-> traffic_policy])
    /\ \E opened \in BOOLEAN :
        IF opened THEN listener' = "open" /\ lpc' = "announce"
        ELSE listener' = listener /\ lpc' = "failed"
    /\ UNCHANGED <<env, traffic_policy, lprinted, sleeps, runnerVars>>

\* print(f"Ingress established at {listener.url()}")
Announce ==
    /\ lpc = "announce"
    /\ lprinted' = Append(lprinted, "Ingress established at ...")
    /\ lpc' = "waiting"
    /\ UNCHANGED <<env, traffic_policy, forwards, listener, sleeps, runnerVars>>

\* One round of `while True: time.sleep(1)`.
Sleep ==
    /\ lpc = "waiting"
    /\ sleeps < MaxSleeps
    /\ sleeps' = sleeps + 1
    /\ UNCHANGED <<lpc, env, traffic_policy, forwards, listener, lprinted, runnerVars>>

\* KeyboardInterrupt inside the try: the handler prints its line and the
\* module ends.  The handler calls nothing on the listener.
InterruptWhileWaiting ==
    /\ lpc = "waiting"
    /\ lprinted' = Append(lprinted, "Closing listener")
    /\ lpc' = "ended"
    /\ UNCHANGED <<env, traffic_policy, forwards, listener, sleeps, runnerVars>>

\* KeyboardInterrupt before the try statement: nothing catches it.
InterruptBeforeWaiting ==
    /\ lpc \in {"start", "forward", "announce"}
    /\ lpc' = "killed"
    /\ UNCHANGED <<env, traffic_policy, forwards, listener, lprinted, sleeps, runnerVars>>

LauncherNext ==
    \/ BuildPolicy
    \/ Forward
    \/ Announce
    \/ Sleep
    \/ InterruptWhileWaiting
    \/ InterruptBeforeWaiting

LauncherSpec == LauncherInit /\ [][LauncherNext]_vars

(***************************************************************************)
(* run_all and main.                                                       *)
(***************************************************************************)
\* RunAllOrder with the format tests before the inspire tests.
RunAllOrderMut ==
    <<"test_health",
      "test_format_basic", "test_format_with_constraints", "test_format_caption_only",
      "test_format_missing_both",
      "test_inspire_basic", "test_inspire_instrumental", "test_inspire_with_language",
      "test_inspire_missing_query", "test_inspire_seed_reproducibility",
      "test_understand_no_input", "test_understand_file_upload",
      "test_understand_audio_path">>

\* The calls of run_all, in the order it makes them.
RunAllOrder ==
    <<"test_health",
      "test_inspire_basic", "test_inspire_instrumental", "test_inspire_with_language",
      "test_inspire_missing_query", "test_inspire_seed_reproducibility",
      "test_format_basic", "test_format_with_constraints", "test_format_caption_only",
      "test_format_missing_both",
      "test_understand_no_input", "test_understand_file_upload",
      "test_understand_audio_path">>

\* The section heading run_all prints before a call, "" when it prints none.
SectionBefore(label) ==
    CASE label = "test_health" -> "Health"
      [] label = "test_inspire_basic" -> "/lm/inspire"
      [] label = "test_format_basic" -> "/lm/format"
      [] label = "test_understand_no_input" -> "/lm/understand"
      [] OTHER -> ""

\* Where run_all is after the call `label` has returned.
AfterCall(label) ==
    LET i == CHOOSE k \in 1..Len(RunAllOrder) : RunAllOrder[k] = label IN
    IF label = "test_health" THEN "health_gate"
    ELSE IF i = Len(RunAllOrder) THEN "summary"
    ELSE RunAllOrder[i + 1]

\* HealthGateAborts with the comparison off by one.
HealthGateAbortsMut(f) == f > 1

\* `if self.failed > 0` after the health check
HealthGateAborts(f) == f > 0

\* RunAllResult tolerating one failure.
RunAllResultMut(f) == f <= 1

\* `return self.failed == 0`
RunAllResult(f) == f = 0

\* `sys.exit(0 if ok else 1)`
ExitCode(ok) == IF ok THEN 0 ELSE 1

\* The values of --audio-file: omitted, empty, a path.
AudioArgs == {None, Some(""), Some("song.wav")}

Runner == [passed |-> passed, failed |-> failed, skipped |-> skipped,
           results |-> results, sent |-> sent, printed |-> printed]

\* main has parsed its arguments and constructed the TestRunner.
Init ==
    /\ pc = "main"
    /\ audio_file \in AudioArgs
    /\ passed = NewRunner.passed
    /\ failed = NewRunner.failed
    /\ skipped = NewRunner.skipped
    /\ results = NewRunner.results
    /\ sent = NewRunner.sent
    /\ printed = NewRunner.printed
    /\ last = [test |-> "", resps |-> <<>>]
    /\ ret = None
    /\ exit_code = None
    /\ LauncherIdle

\* main calls run_all, which prints its banner and takes t0.
RunAllStart ==
    /\ pc = "main"
    /\ pc' = RunAllOrder[1]
    /\ printed' = Append(printed, [line |-> "banner"])
    /\ UNCHANGED <<audio_file, passed, failed, skipped, results, sent, last, ret,
                   exit_code, launcherVars>>

\* One call of run_all: the section heading if any, then the test method.
\* An exception that leaves the method leaves run_all and main too.
Call(label, out, resps) ==
    /\ LET sec == SectionBefore(label)
           st0 == IF sec = "" THEN Runner
                  ELSE [Runner EXCEPT !.printed = Append(@, [line |-> "section",
                                                              title |-> sec])]
           st == Apply(st0, TestName[label], out.events)
       IN /\ passed' = st.passed
          /\ failed' = st.failed
          /\ skipped' = st.skipped
          /\ results' = st.results
          /\ sent' = st.sent
          /\ printed' = st.printed
    /\ pc' = IF out.t = "raise" THEN "crashed" ELSE AfterCall(label)
    /\ last' = [test |-> label, resps |-> resps]
    /\ UNCHANGED <<audio_file, ret, exit_code, launcherVars>>

CallHealth ==
    /\ pc = "test_health"
    /\ \E r \in Answers(TRUE, {}) : Call("test_health", test_health(r), <<r>>)

\* After the health check: abort with False, or go on to the inspire tests.
HealthGate ==
    /\ pc = "health_gate"
    /\ IF HealthGateAborts(failed)
       THEN /\ printed' = Append(printed, [line |-> "abort"])
            /\ ret' = Some(FALSE)
            /\ pc' = "returned"
       ELSE /\ pc' = RunAllOrder[2]
            /\ UNCHANGED <<printed, ret>>
    /\ UNCHANGED <<audio_file, passed, failed, skipped, results, sent, last,
                   exit_code, launcherVars>>

CallInspireBasic ==
    /\ pc = "test_inspire_basic"
    /\ \E r \in Answers(TRUE, DOMAIN DataResponse) : Call("test_inspire_basic", test_inspire_basic(r), <<r>>)

CallInspireInstrumental ==
    /\ pc = "test_inspire_instrumental"
    /\ \E r \in Answers(FALSE, {"no_data_object", "no_caption", "empty_caption"}) :
           Call("test_inspire_instrumental", test_inspire_instrumental(r), <<r>>)

CallInspireWithLanguage ==
    /\ pc = "test_inspire_with_language"
    /\ \E r \in Answers(FALSE, {"no_data_object"}) :
           Call("test_inspire_with_language", test_inspire_with_language(r), <<r>>)

CallInspireMissingQuery ==
    /\ pc = "test_inspire_missing_query"
    /\ \E r \in Answers(TRUE, {}) :
           Call("test_inspire_missing_query", test_inspire_missing_query(r), <<r>>)

SeedAnswers ==
    Answers(FALSE, {"no_data_object", "no_caption", "empty_caption", "other_caption",
                    "null_lyrics", "other_lyrics"})

\* The second answer exists only when the first request returned a response.
CallInspireSeedReproducibility ==
    /\ pc = "test_inspire_seed_reproducibility"
    /\ \E r1 \in SeedAnswers :
           IF r1.kind = "raise"
           THEN Call("test_inspire_seed_reproducibility",
                     test_inspire_seed_reproducibility(r1, r1), <<r1>>)
           ELSE \E r2 \in SeedAnswers :
                   Call("test_inspire_seed_reproducibility",
                        test_inspire_seed_reproducibility(r1, r2), <<r1, r2>>)

CallFormatBasic ==
    /\ pc = "test_format_basic"
    /\ \E r \in Answers(FALSE, {"no_data_object", "no_caption", "no_bpm"}) : Call("test_format_basic", test_format_basic(r), <<r>>)

CallFormatWithConstraints ==
    /\ pc = "test_format_with_constraints"
    /\ \E r \in Answers(FALSE, {"no_data_object"}) :
           Call("test_format_with_constraints", test_format_with_constraints(r), <<r>>)

CallFormatCaptionOnly ==
    /\ pc = "test_format_caption_only"
    /\ \E r \in Answers(FALSE, {"no_data_object"}) :
           Call("test_format_caption_only", test_format_caption_only(r), <<r>>)

CallFormatMissingBoth ==
    /\ pc = "test_format_missing_both"
    /\ \E r \in Answers(TRUE, {}) :
           Call("test_format_missing_both", test_format_missing_both(r), <<r>>)

CallUnderstandNoInput ==
    /\ pc = "test_understand_no_input"
    /\ \E r \in Answers(TRUE, {}) :
           Call("test_understand_no_input", test_understand_no_input(r), <<r>>)

\* No file is opened and no answer exists when the test skips; no answer
\* exists when open() raised.
CallUnderstandFileUpload ==
    /\ pc = "test_understand_file_upload"
    /\ IF SkipWithoutAudio(audio_file)
       THEN Call("test_understand_file_upload",
                 test_understand_file_upload(audio_file, "opened", JNull), <<>>)
       ELSE \E o \in OpenOutcomes :
           IF o # "opened"
           THEN Call("test_understand_file_upload",
                     test_understand_file_upload(audio_file, o, JNull), <<>>)
           ELSE \E r \in Answers(FALSE, {"no_data_object", "no_caption"}) :
                   Call("test_understand_file_upload",
                        test_understand_file_upload(audio_file, o, r), <<r>>)

CallUnderstandAudioPath ==
    /\ pc = "test_understand_audio_path"
    /\ IF SkipWithoutAudio(audio_file)
       THEN Call("test_understand_audio_path",
                 test_understand_audio_path(audio_file, JNull), <<>>)
       ELSE \E r \in Answers(FALSE, {"no_data_object"}) :
               Call("test_understand_audio_path",
                    test_understand_audio_path(audio_file, r), <<r>>)

\* SummaryLine without the skipped count.
SummaryLineMut(p, f, s) ==
    [line |-> "summary", passed |-> p, failed |-> f, skipped |-> 0, time |-> "elapsed"]

\* The "Results: ... passed, ... failed, ... skipped" line with the time line.
SummaryLine(p, f, s) ==
    [line |-> "summary", passed |-> p, failed |-> f, skipped |-> s, time |-> "elapsed"]

\* The end of run_all: the elapsed time, the summary block, the result.
Summary ==
    /\ pc = "summary"
    /\ printed' = Append(printed, SummaryLine(passed, failed, skipped))
    /\ ret' = Some(RunAllResult(failed))
    /\ pc' = "returned"
    /\ last' = [test |-> "", resps |-> <<>>]
    /\ UNCHANGED <<audio_file, passed, failed, skipped, results, sent,
                   exit_code, launcherVars>>

\* main: sys.exit(0 if ok else 1)
Exit ==
    /\ pc = "returned"
    /\ exit_code' = Some(ExitCode(ret[1]))
    /\ pc' = "exited"
    /\ UNCHANGED <<audio_file, passed, failed, skipped, results, sent, printed,
                   last, ret, launcherVars>>

Next ==
    \/ RunAllStart
    \/ CallHealth
    \/ HealthGate
    \/ CallInspireBasic
    \/ CallInspireInstrumental
    \/ CallInspireWithLanguage
    \/ CallInspireMissingQuery
    \/ CallInspireSeedReproducibility
    \/ CallFormatBasic
    \/ CallFormatWithConstraints
    \/ CallFormatCaptionOnly
    \/ CallFormatMissingBoth
    \/ CallUnderstandNoInput
    \/ CallUnderstandFileUpload
    \/ CallUnderstandAudioPath
    \/ Summary
    \/ Exit

Spec == Init /\ [][Next]_vars

(***************************************************************************)
(* Properties.                                                             *)
(***************************************************************************)
Returned == pc \in {"returned", "exited"}
HealthName == "health: server reachable"
SeedName == "inspire: seed reproducibility"
Rejections == {"test_inspire_missing_query", "test_format_missing_both",
               "test_understand_no_input"}
\* The record of the test that has just run.
LastRecord == results[Len(results)]
\* The number of records of the log with the given status.
RECURSIVE CountStatus(_, _)
CountStatus(log, status) ==
    IF log = <<>> THEN 0
    ELSE (IF Head(log).status = status THEN 1 ELSE 0) + CountStatus(Tail(log), status)
\* The answer is a response whose body is a JSON object.
IsJsonObject(r) == r.kind = "http" /\ r.parses /\ IsObj(r.json)
\* The answer is a response whose body is a JSON object with this code.
HasCode(r, code) == IsJsonObject(r) /\ Has(r.json, "code") /\ r.json.v.code = JNum(code)

\* C1: on a fresh runner the health check is the first test; when it records
\* FAIL (a status other than 200, a code other than 200, a connection error
\* or another exception) no other test runs, no further request is issued,
\* the log holds the one health record with failed = 1, and run_all returns
\* False.
C1_HealthFailureAborts ==
    /\ results # <<>> => results[1].name = HealthName
    /\ sent # <<>> => sent[1] = SendEv("GET", "/health", "", 10)
    /\ (last.test = "test_health"
            /\ ~(last.resps[1].kind = "http" /\ last.resps[1].status = 200
                 /\ HasCode(last.resps[1], 200)))
        => results[1].status = "FAIL"
    /\ (results # <<>> /\ results[1].status = "FAIL")
        => /\ Len(results) = 1
           /\ Len(sent) = 1
           /\ failed = 1 /\ passed = 0 /\ skipped = 0
           /\ pc \in {"health_gate", "returned", "exited"}
           /\ Returned => ret = Some(FALSE)

C1_Witness ==
    /\ pc = "returned"
    /\ results = <<[name |-> HealthName, status |-> "FAIL", detail |-> "..."]>>
    /\ ret = Some(FALSE)
    /\ last.resps[1].kind = "http" /\ last.resps[1].status # 200

\* C2: main exits with 0 exactly when no FAIL outcome was recorded during the
\* run and with 1 otherwise, whatever the number of SKIP outcomes.
C2_ExitCodeIffNoFail ==
    pc = "exited" =>
        exit_code = Some(IF CountStatus(results, "FAIL") = 0 THEN 0 ELSE 1)

C2_Witness ==
    /\ pc = "exited"
    /\ exit_code = Some(0)
    /\ CountStatus(results, "SKIP") = 2
    /\ CountStatus(results, "PASS") = 11

\* The order of the suite as the specification gives it, by method and by
\* recorded name.
ClaimedOrder ==
    <<"test_health",
      "test_inspire_basic", "test_inspire_instrumental", "test_inspire_with_language",
      "test_inspire_missing_query", "test_inspire_seed_reproducibility",
      "test_format_basic", "test_format_with_constraints", "test_format_caption_only",
      "test_format_missing_both",
      "test_understand_no_input", "test_understand_file_upload",
      "test_understand_audio_path">>
ClaimedNames ==
    <<"health: server reachable",
      "inspire: basic query", "inspire: instrumental", "inspire: vocal_language=ja",
      "inspire: missing query (expect 400)", "inspire: seed reproducibility",
      "format: basic", "format: with constraints", "format: caption only",
      "format: missing both (expect 400)",
      "understand: no input (expect 400)", "understand: file upload",
      "understand: audio_path">>
IndexOf(label) == CHOOSE k \in 1..Len(ClaimedOrder) : ClaimedOrder[k] = label

\* The failures of a test's HTTP exchange, parsing and assertions, told from
\* the answers it received: the request raised (connection refused, timeout),
\* the body is no JSON, the success body lacks the data key the test reads,
\* the caption the test asserts is missing or empty, the audio file could not
\* be opened.
ReadsData == {ClaimedOrder[k] : k \in 1..Len(ClaimedOrder)} \ (Rejections \cup {"test_health"})
AssertsCaption == {"test_inspire_basic", "test_inspire_instrumental", "test_format_basic",
                   "test_understand_file_upload"}
AnswerFails(test, r) ==
    \/ r.kind = "raise"
    \/ r.kind = "http" /\ ~r.parses
    \/ test \in ReadsData /\ HasCode(r, 200) /\ ~Has(r.json, "data")
    \/ /\ test \in AssertsCaption /\ HasCode(r, 200) /\ Has(r.json, "data")
       /\ IsObj(r.json.v.data)
       /\ (~Has(r.json.v.data, "caption") \/ r.json.v.data.v.caption = JStr(""))
FailureRaised ==
    /\ last.test # ""
    /\ \/ \E i \in DOMAIN last.resps : AnswerFails(last.test, last.resps[i])
       \/ /\ last.test = "test_understand_file_upload"
          /\ audio_file \notin {None, Some("")}
          /\ last.resps = <<>>
\* The failure was recorded as one FAIL of the test that has just run.
FailureRecorded ==
    /\ Len(results) = IndexOf(last.test)
    /\ LastRecord = [name |-> ClaimedNames[IndexOf(last.test)], status |-> "FAIL",
                     detail |-> "..."]

\* C3 as stated: no exception leaves a test method; every failure raised
\* during the exchange, the parsing or the assertions is recorded as a FAIL of
\* that test, for every test method, and run_all goes on to the next test.
C3_AsClaimed ==
    /\ pc # "crashed"
    /\ FailureRaised => FailureRecorded
    /\ \A i \in 1..Len(results) :
        (results[i].status = "FAIL" /\ i < Len(ClaimedOrder))
            => (pc \in {ClaimedOrder[i + 1], "health_gate"} \/ Len(results) > i)

\* C3 amended: no exception leaves a test method and every such failure is
\* recorded as one FAIL of that test; after a FAIL of any test but the health
\* check run_all goes on to the next test, and after a FAIL of the health
\* check it runs no further test and returns False.
C3_FailuresBecomeFail ==
    /\ pc # "crashed"
    /\ FailureRaised => FailureRecorded
    /\ \A i \in 2..Len(results) :
        (results[i].status = "FAIL" /\ i < Len(ClaimedOrder))
            => (pc = ClaimedOrder[i + 1] \/ Len(results) > i)
    /\ (results # <<>> /\ results[1].status = "FAIL")
        => (Len(results) = 1 /\ pc \in {"health_gate", "returned", "exited"}
            /\ (Returned => ret = Some(FALSE)))

C3_Witness ==
    /\ last.test = "test_format_caption_only"
    /\ HasCode(last.resps[1], 200) /\ ~Has(last.resps[1].json, "data")
    /\ LastRecord.status = "FAIL"
    /\ pc = "test_format_missing_both"

NoAudio == audio_file \in {None, Some("")}

\* C4: with no audio file (None or empty) test_understand_file_upload and
\* test_understand_audio_path each record exactly one SKIP and issue no
\* request; the SKIP increments skipped only, leaving passed and failed
\* alone; the summary line shows the skipped count.
C4_SkipWithoutAudio ==
    /\ [][(pc \in {"test_understand_file_upload", "test_understand_audio_path"} /\ NoAudio)
            => /\ results' = Append(results, [name |-> ClaimedNames[IndexOf(pc)],
                                              status |-> "SKIP", detail |-> "..."])
               /\ skipped' = skipped + 1
               /\ passed' = passed
               /\ failed' = failed
               /\ sent' = sent]_vars
    /\ [](\A i \in DOMAIN printed :
            printed[i].line = "summary"
                => /\ printed[i].skipped = CountStatus(results, "SKIP")
                   /\ printed[i].passed + printed[i].failed
                        = Len(results) - CountStatus(results, "SKIP")
                   /\ NoAudio => printed[i].skipped = 2)

C4_Witness ==
    /\ pc = "returned"
    /\ audio_file = Some("")
    /\ Len(results) = 13
    /\ results[12].status = "SKIP" /\ results[13].status = "SKIP"
    /\ printed[Len(printed)].line = "summary"
    /\ printed[Len(printed)].skipped = 2

SeedPayload == "query,seed=12345,temperature"
IsSeedRequest(e) == e.payload = SeedPayload
SeedRequests == SelectSeq(sent, IsSeedRequest)
\* The response carries code 200 and a data object.
HasData(r) == HasCode(r, 200) /\ Has(r.json, "data") /\ IsObj(r.json.v.data)
\* The field of the response's data, absent when there is none.
FieldOf(r, k) ==
    IF HasData(r) /\ Has(r.json.v.data, k) THEN r.json.v.data.v[k] ELSE [t |-> "absent"]
\* The field of the response's data, the empty string when it is missing.
TextOf(r, k) ==
    IF Has(r.json.v.data, k) THEN r.json.v.data.v[k] ELSE JStr("")
\* Once run_all has returned after a passed health check, the format and
\* understand tests have run after the seed test.
SeedFailureNotFatal ==
    (Returned /\ Len(results) > 1)
        => (Len(results) = 13 /\ \A i \in 6..13 : results[i].name = ClaimedNames[i])

\* C5 as stated: the seed test issues the same payload twice, one request
\* after the other, and records PASS exactly when both responses have code
\* 200 and their captions and their lyrics are equal; a divergence is one
\* FAIL that does not stop the suite.
C5_AsClaimed ==
    /\ last.test = "test_inspire_seed_reproducibility"
        => /\ Len(SeedRequests) = 2 /\ SeedRequests[1] = SeedRequests[2]
           /\ Len(results) = 6 /\ LastRecord.name = SeedName
           /\ LastRecord.status \in {"PASS", "FAIL"}
           /\ LastRecord.status = "PASS"
                <=> /\ Len(last.resps) = 2
                    /\ HasCode(last.resps[1], 200) /\ HasCode(last.resps[2], 200)
                    /\ FieldOf(last.resps[1], "caption") = FieldOf(last.resps[2], "caption")
                    /\ FieldOf(last.resps[1], "lyrics") = FieldOf(last.resps[2], "lyrics")
           /\ pc = "test_format_basic"
    /\ SeedFailureNotFatal

\* C5 amended: the seed test issues its payload once and, when that request
\* returned a response, the same payload a second time; it records PASS
\* exactly when both responses are JSON objects with code 200 and a data
\* object and their captions and their lyrics, each read as "" when missing,
\* are equal; in every other case it records exactly one FAIL, which does not
\* stop the suite: the format and understand tests still run.
C5_SeedReproducibility ==
    /\ last.test = "test_inspire_seed_reproducibility"
        => /\ Len(SeedRequests) = (IF last.resps[1].kind = "raise" THEN 1 ELSE 2)
           /\ Len(SeedRequests) = Len(last.resps)
           /\ \A i \in DOMAIN SeedRequests : SeedRequests[i] = SeedRequests[1]
           /\ Len(sent) = 5 + Len(SeedRequests)
           /\ Len(results) = 6 /\ LastRecord.name = SeedName
           /\ LastRecord.status \in {"PASS", "FAIL"}
           /\ LastRecord.status = "PASS"
                <=> /\ Len(last.resps) = 2
                    /\ HasData(last.resps[1]) /\ HasData(last.resps[2])
                    /\ TextOf(last.resps[1], "caption") = TextOf(last.resps[2], "caption")
                    /\ TextOf(last.resps[1], "lyrics") = TextOf(last.resps[2], "lyrics")
           /\ pc = "test_format_basic"
    /\ SeedFailureNotFatal

C5_Witness ==
    /\ last.test = "test_inspire_seed_reproducibility"
    /\ Len(last.resps) = 2
    /\ HasData(last.resps[1]) /\ HasData(last.resps[2])
    /\ TextOf(last.resps[1], "caption") = TextOf(last.resps[2], "caption")
    /\ TextOf(last.resps[1], "lyrics") # TextOf(last.resps[2], "lyrics")
    /\ LastRecord = [name |-> SeedName, status |-> "FAIL", detail |-> "..."]
    /\ failed = 1
    /\ pc = "test_format_basic"

\* C6: a rejection test (inspire missing query, format missing both,
\* understand no input) records PASS when the response's body carries code
\* 400 and FAIL for every other code, 200 included, and such a FAIL makes the
\* exit code 1.
C6_RejectionExpects400 ==
    /\ last.test \in Rejections
        => /\ Len(results) = IndexOf(last.test)
           /\ LastRecord.name = ClaimedNames[IndexOf(last.test)]
           /\ LastRecord.status = (IF HasCode(last.resps[1], 400) THEN "PASS" ELSE "FAIL")
    /\ (pc = "exited" /\ \E t \in Rejections :
            IndexOf(t) <= Len(results) /\ results[IndexOf(t)].status = "FAIL")
        => exit_code = Some(1)

C6_Witness ==
    /\ last.test = "test_format_missing_both"
    /\ HasCode(last.resps[1], 200)
    /\ LastRecord.status = "FAIL"
    /\ passed = 9

\* C9 as stated: on every path run_all ends by printing the summary line
\* with the three counts and the time before it returns.
C9_AsClaimed ==
    Returned =>
        printed[Len(printed)] =
            [line |-> "summary", passed |-> passed, failed |-> failed,
             skipped |-> skipped, time |-> "elapsed"]

\* C9 amended: when the health check passed, run_all ends by printing the
\* summary line with the passed, failed and skipped counts and the time
\* before it returns; when the health check failed, it prints the abort
\* message instead, prints no summary line and returns False.
C9_SummaryUnlessAborted ==
    Returned =>
        IF results[1].status = "PASS"
        THEN /\ printed[Len(printed)] =
                    [line |-> "summary", passed |-> passed, failed |-> failed,
                     skipped |-> skipped, time |-> "elapsed"]
             /\ ret = Some(failed = 0)
        ELSE /\ printed[Len(printed)] = [line |-> "abort"]
             /\ \A i \in DOMAIN printed : printed[i].line # "summary"
             /\ ret = Some(FALSE)

C9_Witness ==
    /\ pc = "returned"
    /\ printed[Len(printed)].line = "summary"
    /\ printed[Len(printed)].skipped = 2
    /\ printed[Len(printed)].failed = 3

\* C10: on a fresh runner whose health check passes run_all runs every test
\* exactly once in the fixed order health, five inspire tests, four format
\* tests, three understand tests: whatever the server answers, the log ends
\* with exactly 13 records, one per test, named in that order.
C10_FixedOrder ==
    /\ Len(results) <= Len(ClaimedNames)
    /\ \A i \in 1..Len(results) : results[i].name = ClaimedNames[i]
    /\ \A k \in 1..Len(ClaimedOrder) : pc = ClaimedOrder[k] => Len(results) = k - 1
    /\ (Returned /\ results[1].status = "PASS") => Len(results) = 13
    /\ pc = "summary" => Len(results) = 13

C10_Witness ==
    /\ pc = "returned"
    /\ Len(results) = 13
    /\ results[1].status = "PASS"
    /\ results[6].status = "FAIL"
    /\ results[13].status = "PASS"

\* The counter a record of the given status is counted in.
CounterOf(status, p, f, k) ==
    IF status = "PASS" THEN p ELSE IF status = "FAIL" THEN f ELSE k

\* The counters agree with the log.
CountersMatchLog ==
    /\ passed + failed + skipped = Len(results)
    /\ passed = CountStatus(results, "PASS")
    /\ failed = CountStatus(results, "FAIL")
    /\ skipped = CountStatus(results, "SKIP")
    /\ \A i \in 1..Len(results) : results[i].status \in {"PASS", "FAIL", "SKIP"}

\* A step that leaves the log and the counters alone.
LogUntouched ==
    /\ results' = results
    /\ passed' = passed /\ failed' = failed /\ skipped' = skipped

\* A step that appends exactly one record and adds one to exactly the
\* counter of that record's status.
OneRecordAppended ==
    /\ Len(results') = Len(results) + 1
    /\ SubSeq(results', 1, Len(results)) = results
    /\ LET status == results'[Len(results')].status
       IN /\ passed' = passed + (IF status = "PASS" THEN 1 ELSE 0)
          /\ failed' = failed + (IF status = "FAIL" THEN 1 ELSE 0)
          /\ skipped' = skipped + (IF status = "SKIP" THEN 1 ELSE 0)
          /\ CounterOf(status, passed', failed', skipped')
                = CounterOf(status, passed, failed, skipped) + 1

\* C11: in every reachable state of a TestRunner passed + failed + skipped
\* equals the length of the result log and each counter equals the number
\* of log records with its status (PASS, FAIL, SKIP); every step either
\* leaves log and counters alone or is one _record call, which appends
\* exactly one record and adds one to exactly one counter; no step removes
\* a record or decreases a counter.
C11_CountersMatchLog ==
    /\ [](CountersMatchLog)
    /\ [][LogUntouched \/ OneRecordAppended]_vars
    /\ [][/\ Len(results') >= Len(results)
          /\ SubSeq(results', 1, Len(results)) = results
          /\ passed' >= passed /\ failed' >= failed /\ skipped' >= skipped]_vars

C11_Witness ==
    /\ pc = "returned"
    /\ Len(results) = 13
    /\ passed = 8 /\ failed = 3 /\ skipped = 2
    /\ CountStatus(results, "PASS") = 8
    /\ CountStatus(results, "FAIL") = 3
    /\ CountStatus(results, "SKIP") = 2

\* Both credentials are present and non-empty in the environment.
BothCredentials ==
    /\ env.AUTH_USERNAME \notin {None, Some("")}
    /\ env.AUTH_PASSWORD \notin {None, Some("")}
\* The basic-auth policy with the single credential "<user>:<password>", in
\* the JSON shape the provider is given.
BasicAuthPolicy(user, password) ==
    "{\"on_http_request\": [{\"actions\": [{\"type\": \"basic-auth\", \"config\": "
    \o "{\"credentials\": [\"" \o user \o ":" \o password \o "\"]}}]}]}"
WarningPrinted == \E i \in DOMAIN lprinted : lprinted[i] = UnprotectedWarning

\* C7: for every environment the forwarding call is passed the basic-auth
\* policy with the single credential "<user>:<password>" exactly when
\* AUTH_USERNAME and AUTH_PASSWORD are both present and non-empty; otherwise
\* it is passed None and the unauthenticated warning has been printed before
\* the listener is opened.
C7_PolicyIffBothCredentials ==
    /\ \A i \in DOMAIN forwards :
        IF BothCredentials
        THEN /\ forwards[i].traffic_policy =
                    Some(BasicAuthPolicy(env.AUTH_USERNAME[1], env.AUTH_PASSWORD[1]))
             /\ ~WarningPrinted
        ELSE forwards[i].traffic_policy = None /\ WarningPrinted
    /\ (lpc = "forward" /\ ~BothCredentials) => WarningPrinted
    /\ (listener # "none" /\ ~BothCredentials) => WarningPrinted

C7_Witness ==
    /\ listener = "open"
    /\ env.AUTH_USERNAME = Some("alice") /\ env.AUTH_PASSWORD = Some("")
    /\ forwards[1].traffic_policy = None
    /\ lprinted[1] = UnprotectedWarning

\* C8: the launcher opens exactly one forwarding listener on local port 8001
\* without retry, a failure to open being fatal, then waits until an
\* interrupt; in every run interrupted while waiting the listener is released
\* before the process ends and the interrupt is handled.
C8_AsClaimed ==
    /\ Len(forwards) <= 1
    /\ \A i \in DOMAIN forwards : forwards[i].port = 8001
    /\ lpc = "failed" => listener = "none"
    /\ lpc = "ended" =>
        /\ lprinted[Len(lprinted)] = "Closing listener"
        /\ listener = "closed"

=============================================================================
